---- MODULE Spec2Model ----
(***************************************************************************)
(* A model of the axum-jwt middleware: Decoder::decode (decode.rs), the    *)
(* Bearer extractor (extract.rs), the Validate/Output decision, the        *)
(* Service impl Jwt::poll_ready / Jwt::call and the per-request future     *)
(* JwtFuture with its State enum (layer.rs).                               *)
(***************************************************************************)
EXTENDS Integers, Sequences, FiniteSets, TLC

\* ------------------------------------------------------------- bounds
\* Number of requests dispatched through one middleware instance.
MaxReq == 2
\* Longest key vector handed to Decoder::with_keys.
MaxKeys == 2
\* Longest remainder of an Authorization header value after its lead.
MaxTail == 2

\* ------------------------------------------------------------- values
\* StatusCode::UNAUTHORIZED
UNAUTHORIZED == 401

KeyIds == {"k1", "k2", "k3"}
ClaimVals == {"admin", "user"}
TokenKinds == {"good", "malformed", "expired", "schema"}

\* A raw token: who signed it, what is wrong with it (if anything) and the
\* claims payload it carries.
Tokens ==
    {t \in [signer : KeyIds, kind : TokenKinds, claims : ClaimVals] :
        t.kind # "good" => t.claims = "user"}

NoToken == [signer |-> "none", kind |-> "none", claims |-> "none"]

\* The tokens requests arrive with: a good one signed by the first key, one
\* signed by an unknown key, a malformed one, an expired one, and one signed
\* by the second key whose payload only IgnoredAny accepts.
ReqTokens ==
    {[signer |-> "k1", kind |-> "good", claims |-> "admin"],
     [signer |-> "k3", kind |-> "good", claims |-> "user"],
     [signer |-> "k1", kind |-> "malformed", claims |-> "user"],
     [signer |-> "k1", kind |-> "expired", claims |-> "user"],
     [signer |-> "k2", kind |-> "schema", claims |-> "user"]}

\* The Authorization header of a request as Bearer::extract sees it: none,
\* or "Bearer " and a token.
Headers ==
    {[kind |-> "missing", token |-> NoToken]}
    \cup {[kind |-> "bearer", token |-> t] : t \in ReqTokens}

\* Responses: a status and a body.
Resp(status, body) == [status |-> status, body |-> body]
DefaultResp == Resp(200, "")
\* StatusCode::UNAUTHORIZED.into_response()
Unauthorized == Resp(UNAUTHORIZED, "")

\* Error values a Result-returning filter may produce, and their responses
\* (E: IntoResponse is caller-defined).
FilterErrs == {"forbidden", "teapot"}
ErrIntoResponse(e) ==
    IF e = "forbidden" THEN Resp(403, e)
    ELSE IF e = "teapot" THEN Resp(418, e)
    ELSE Resp(500, e)

\* What the downstream handler's future resolves to, Result<S::Response,
\* S::Error>: a greeting of the caller named in the request's token, or an error.
DownOk(claims) == [ok |-> TRUE, val |-> claims]
DownErr == [ok |-> FALSE, val |-> "boom"]
DownResults(req) == {DownOk(req.hdr.token.claims), DownErr}
\* <Result<S::Response, S::Error> as IntoResponse>::into_response
ResultIntoResponse(r) ==
    IF r.ok THEN Resp(200, r.val) ELSE ErrIntoResponse(r.val)

\* ------------------------------------------------------------- decoder
\* All key vectors of length 1..MaxKeys.
KeyLists == UNION {[1..n -> KeyIds] : n \in 1..MaxKeys}

\* jsonwebtoken::decode(token, key, validation) for claims type T; typed is
\* FALSE when T = IgnoredAny (any payload deserializes).
JwtDecode(token, key, typed) ==
    IF token.kind = "malformed" THEN [ok |-> FALSE, val |-> "InvalidToken"]
    ELSE IF token.signer # key THEN [ok |-> FALSE, val |-> "InvalidSignature"]
    ELSE IF token.kind = "expired" THEN [ok |-> FALSE, val |-> "ExpiredSignature"]
    ELSE IF token.kind = "schema" /\ typed THEN [ok |-> FALSE, val |-> "Json"]
    ELSE [ok |-> TRUE, val |-> token.claims]

\* The loop of Decoder::decode from key index i on, err being the error kept
\* so far ("None" before any key failed) and tried the keys attempted so far.
RECURSIVE DecodeLoop(_, _, _, _, _, _)
DecodeLoop(keys, i, token, typed, err, tried) ==
    IF i > Len(keys)
    THEN IF err = "None"
         THEN [ok |-> FALSE, val |-> "panic: take error", tried |-> tried]
         ELSE [ok |-> FALSE, val |-> err, tried |-> tried]
    ELSE LET r == JwtDecode(token, keys[i], typed) IN
         IF r.ok
         THEN [ok |-> TRUE, val |-> r.val, tried |-> Append(tried, i)]
         ELSE DecodeLoop(keys, i + 1, token, typed, r.val, Append(tried, i))

\* A decode that stops after the first key whatever it answered.
DecodeFirstKeyOnly(keys, token, typed) ==
    DecodeLoop(SubSeq(keys, 1, 1), 1, token, typed, "None", <<>>)

\* A loop that keeps the first error it meets instead of the last.
RECURSIVE DecodeLoopFirstError(_, _, _, _, _, _)
DecodeLoopFirstError(keys, i, token, typed, err, tried) ==
    IF i > Len(keys)
    THEN IF err = "None"
         THEN [ok |-> FALSE, val |-> "panic: take error", tried |-> tried]
         ELSE [ok |-> FALSE, val |-> err, tried |-> tried]
    ELSE LET r == JwtDecode(token, keys[i], typed) IN
         IF r.ok
         THEN [ok |-> TRUE, val |-> r.val, tried |-> Append(tried, i)]
         ELSE DecodeLoopFirstError(keys, i + 1, token, typed,
                                   IF err = "None" THEN r.val ELSE err,
                                   Append(tried, i))

\* A decode that reports the error of the first key that failed.
DecodeFirstError(keys, token, typed) ==
    DecodeLoopFirstError(keys, 1, token, typed, "None", <<>>)

\* A decode that asks every key and then answers with the first success.
DecodeAskAll(keys, token, typed) ==
    LET last == DecodeLoop(keys, 1, token, typed, "None", <<>>)
        all == [i \in 1..Len(keys) |-> i]
    IN [ok |-> last.ok, val |-> last.val, tried |-> all]

\* Decoder::decode
DecoderDecode(keys, token, typed) ==
    DecodeLoop(keys, 1, token, typed, "None", <<>>)

\* Option<Decoder>, a Decoder being its key vector (the validation is the
\* one shared by every key).
NoDecoder == [some |-> FALSE, keys |-> <<>>]
SomeDecoder(keys) == [some |-> TRUE, keys |-> keys]

\* Decoder::from_key
FromKey(key) == SomeDecoder(<<key>>)
\* Decoder::new
New(key) == SomeDecoder(<<key>>)

\* A with_keys that takes any vector.
WithKeysUnchecked(keys) == SomeDecoder(keys)

\* Decoder::with_keys
WithKeys(keys) ==
    IF keys = <<>> THEN NoDecoder ELSE SomeDecoder(keys)

\* ------------------------------------------------------------- extractor
\* Option<&str>
None == [some |-> FALSE, token |-> NoToken]
Some(t) == [some |-> TRUE, token |-> t]

\* <Bearer as Extract>::extract: the header, the "Bearer " prefix, the UTF-8 check.
BearerExtract(hdr) ==
    IF hdr.kind = "missing" THEN None
    ELSE IF hdr.kind = "wrongprefix" THEN None
    ELSE IF hdr.kind = "nonutf8" THEN None
    ELSE Some(hdr.token)

\* The bytes of "Bearer ", the prefix Bearer::extract strips.
BearerPrefix == <<66, 101, 97, 114, 101, 114, 32>>

\* Option<&[u8]> / Option<&str>
NoneBytes == [some |-> FALSE, bytes |-> <<>>]
SomeBytes(b) == [some |-> TRUE, bytes |-> b]

\* The Authorization header of the header map: absent, or its value's bytes.
NoAuthorization == [present |-> FALSE, value |-> <<>>]
Authorization(v) == [present |-> TRUE, value |-> v]

\* ASCII lower case of a byte.
LowerByte(b) == IF b >= 65 /\ b <= 90 THEN b + 32 ELSE b

\* A strip_prefix that compares without regard to ASCII case.
StripPrefixIgnoreCase(bytes, prefix) ==
    IF Len(bytes) >= Len(prefix)
       /\ \A i \in 1..Len(prefix) : LowerByte(bytes[i]) = LowerByte(prefix[i])
    THEN SomeBytes(SubSeq(bytes, Len(prefix) + 1, Len(bytes)))
    ELSE NoneBytes

\* <[u8]>::strip_prefix
StripPrefix(bytes, prefix) ==
    IF Len(bytes) >= Len(prefix) /\ SubSeq(bytes, 1, Len(prefix)) = prefix
    THEN SomeBytes(SubSeq(bytes, Len(prefix) + 1, Len(bytes)))
    ELSE NoneBytes

\* A continuation byte of a UTF-8 sequence at position i.
Cont(b, i) == i <= Len(b) /\ b[i] >= 128 /\ b[i] <= 191
\* The byte at position i lies in lo..hi.
InRange(b, i, lo, hi) == i <= Len(b) /\ b[i] >= lo /\ b[i] <= hi

\* The validation of str::from_utf8 from position i on: one scalar value
\* after the other, by the well-formed byte sequences of UTF-8.
RECURSIVE Utf8ValidFrom(_, _)
Utf8ValidFrom(b, i) ==
    IF i > Len(b) THEN TRUE
    ELSE IF b[i] <= 127 THEN Utf8ValidFrom(b, i + 1)
    ELSE IF b[i] >= 194 /\ b[i] <= 223
    THEN Cont(b, i + 1) /\ Utf8ValidFrom(b, i + 2)
    ELSE IF b[i] = 224
    THEN InRange(b, i + 1, 160, 191) /\ Cont(b, i + 2) /\ Utf8ValidFrom(b, i + 3)
    ELSE IF (b[i] >= 225 /\ b[i] <= 236) \/ b[i] \in {238, 239}
    THEN Cont(b, i + 1) /\ Cont(b, i + 2) /\ Utf8ValidFrom(b, i + 3)
    ELSE IF b[i] = 237
    THEN InRange(b, i + 1, 128, 159) /\ Cont(b, i + 2) /\ Utf8ValidFrom(b, i + 3)
    ELSE IF b[i] = 240
    THEN InRange(b, i + 1, 144, 191) /\ Cont(b, i + 2) /\ Cont(b, i + 3)
         /\ Utf8ValidFrom(b, i + 4)
    ELSE IF b[i] >= 241 /\ b[i] <= 243
    THEN Cont(b, i + 1) /\ Cont(b, i + 2) /\ Cont(b, i + 3)
         /\ Utf8ValidFrom(b, i + 4)
    ELSE IF b[i] = 244
    THEN InRange(b, i + 1, 128, 143) /\ Cont(b, i + 2) /\ Cont(b, i + 3)
         /\ Utf8ValidFrom(b, i + 4)
    ELSE FALSE

\* str::from_utf8(bytes).ok()
FromUtf8(bytes) ==
    IF Utf8ValidFrom(bytes, 1) THEN SomeBytes(bytes) ELSE NoneBytes

\* <Bearer as Extract>::extract on the bytes of the header value.
BearerExtractBytes(auth) ==
    IF ~auth.present THEN NoneBytes
    ELSE LET token == StripPrefix(auth.value, BearerPrefix) IN
         IF ~token.some THEN NoneBytes
         ELSE FromUtf8(token.bytes)

\* ------------------------------------------------------------- Token / Claims
\* Result<Token<T, X>, Error>
TokenOk(claims) == [ok |-> TRUE, claims |-> claims, err |-> [kind |-> "none", val |-> ""]]
TokenErr(e) == [ok |-> FALSE, claims |-> "none", err |-> e]

\* A from_request_parts that deserializes the claims into anything.
TokenFromRequestPartsUntyped(keys, hdr) ==
    LET tok == BearerExtract(hdr) IN
    IF ~tok.some THEN TokenErr([kind |-> "Extract", val |-> ""])
    ELSE LET d == DecoderDecode(keys, tok.token, FALSE) IN
         IF ~d.ok THEN TokenErr([kind |-> "Jwt", val |-> d.val])
         ELSE TokenOk(d.val)

\* <Token<T, Bearer> as FromRequestParts<S>>::from_request_parts, keys being
\* the decoder of the state: X::extract(parts).ok_or(Error::Extract)?, then
\* decoder.decode(token).map_err(Error::Jwt)?
TokenFromRequestParts(keys, hdr) ==
    LET tok == BearerExtract(hdr) IN
    IF ~tok.some THEN TokenErr([kind |-> "Extract", val |-> ""])
    ELSE LET d == DecoderDecode(keys, tok.token, TRUE) IN
         IF ~d.ok THEN TokenErr([kind |-> "Jwt", val |-> d.val])
         ELSE TokenOk(d.val)

\* <Claims<T> as FromRequestParts<S>>::from_request_parts
ClaimsFromRequestParts(keys, hdr) ==
    LET t == TokenFromRequestParts(keys, hdr) IN
    IF t.ok THEN TokenOk(t.claims) ELSE t

\* ------------------------------------------------------------- errors
\* A conversion that answers a bad token with 400 Bad Request.
ErrorIntoResponseBadRequest(e) ==
    IF e.kind = "Extract" THEN Unauthorized
    ELSE IF e.kind = "Jwt" THEN Resp(400, e.val)
    ELSE ErrIntoResponse(e.val)

\* <Error as IntoResponse>::into_response for Error::Extract, Error::Jwt(_)
\* and Error::Custom(u).
ErrorIntoResponse(e) ==
    IF e.kind \in {"Extract", "Jwt"} THEN Unauthorized
    ELSE ErrIntoResponse(e.val)

ErrorExtract == [kind |-> "Extract", val |-> ""]
ErrorJwt(e) == [kind |-> "Jwt", val |-> e]

\* ------------------------------------------------------------- decision
\* Option<Response>
NoResp == [some |-> FALSE, res |-> DefaultResp]
SomeResp(r) == [some |-> TRUE, res |-> r]

\* Values a decision returns: a bool, or a Result<(), E>.
BoolOut(b) == [type |-> "bool", ok |-> b, err |-> ""]
ResultOk == [type |-> "result", ok |-> TRUE, err |-> ""]
ResultErr(e) == [type |-> "result", ok |-> FALSE, err |-> e]

\* An output that answers a denial with 403 Forbidden.
OutputBoolForbidden(o) ==
    IF o.ok THEN NoResp ELSE SomeResp(Resp(403, ""))

\* <bool as Output>::output
OutputBool(o) ==
    IF o.ok THEN NoResp ELSE SomeResp(Unauthorized)

\* An output that answers every error of the filter with the fixed 401.
OutputResultFixed(o) ==
    IF o.ok THEN NoResp ELSE SomeResp(Unauthorized)

\* <Result<(), E> as Output>::output
OutputResult(o) ==
    IF o.ok THEN NoResp ELSE SomeResp(ErrIntoResponse(o.err))

\* Output::output, by the type of the decision value.
Output(o) ==
    IF o.type = "bool" THEN OutputBool(o) ELSE OutputResult(o)

\* <Discard as Validate>::validate
DiscardValidate(claims) == {BoolOut(TRUE)}

\* <Filter<F, I> as Validate>::validate: the values the user's FnMut may
\* return for these claims (it may have side effects, so any of them).
FilterValidate(kind, claims) ==
    IF kind = "FilterBool" THEN {BoolOut(TRUE), BoolOut(FALSE)}
    ELSE {ResultOk} \cup {ResultErr(e) : e \in FilterErrs}

\* self.validate.validate(&claims)
Validate(kind, claims) ==
    IF kind = "Discard" THEN DiscardValidate(claims)
    ELSE FilterValidate(kind, claims)

\* A Discard whose input is a typed payload too.
TypedAlways(kind) == TRUE

\* Whether H::Input is a typed payload (Filter) or IgnoredAny (Discard).
Typed(kind) == kind # "Discard"

\* ------------------------------------------------------------- requests
\* A request: its Authorization header and its extensions (the claims stored
\* there, if any).
Req(hdr, ext) == [hdr |-> hdr, ext |-> ext, body |-> "body"]
\* Request::default(), what mem::take leaves behind.
DefaultReq == [hdr |-> [kind |-> "missing", token |-> NoToken], ext |-> "none",
               body |-> ""]

\* A store function that inserts a default value in place of the claims.
StoreFnDefault(store, claims, req) ==
    IF store = "extension" THEN Req(req.hdr, "user") ELSE req

\* The store function: |_, _| {} or parts.extensions.insert(claims).
StoreFn(store, claims, req) ==
    IF store = "extension" THEN Req(req.hdr, claims) ELSE req

\* ------------------------------------------------------------- JwtLayer
\* The extractor types X: Bearer and a caller-defined one.
Extractors == {"Bearer", "Custom"}

\* layer(decoder): JwtLayer<Discard, Bearer>
LayerFn(keys) ==
    [decoder |-> keys, validate |-> "Discard", store |-> "noop", extract |-> "Bearer"]

\* A with_filter that also turns the storing of claims on.
WithFilterStoring(l, kind) ==
    [l EXCEPT !.validate = kind, !.store = "extension"]

\* JwtLayer<Discard, X>::with_filter
WithFilter(l, kind) ==
    [l EXCEPT !.validate = kind, !.store = "noop"]

\* JwtLayer<H, Bearer>::with_extract
WithExtract(l, x) == [l EXCEPT !.extract = x]

\* JwtLayer<Filter<F, I>, Bearer>::store_to_extension
StoreToExtension(l) == [l EXCEPT !.store = "extension"]

\* Whether JwtLayer<H, X> implements Layer<S>: the impl is written for
\* JwtLayer<H>, which is JwtLayer<H, Bearer>.
ImplementsLayer(l) == l.extract = "Bearer"

\* Every layer the builder methods can produce from layer(decoder).
BuildableLayers(keys) ==
    LET plain == {LayerFn(keys)}
        filtered == {WithFilter(l, k) : l \in plain, k \in {"FilterBool", "FilterResult"}}
        storing == {StoreToExtension(l) : l \in filtered}
        bearer == plain \cup filtered \cup storing
    IN bearer \cup {WithExtract(l, x) : l \in bearer, x \in Extractors}

\* <Jwt<S, H, X> as Service<Request>>::Error, for every S, H and X.
ErrorType(l) == "Infallible"

\* What the middleware built from a layer does with a downstream error: with
\* Error = Infallible it can only turn it into a response ("opaque");
\* returning it as it is ("transparent") needs Error = S::Error.
FailurePolicy(l) ==
    IF ErrorType(l) = "Infallible" THEN "opaque" ELSE "transparent"

\* ------------------------------------------------------------- future
NoInner == [st |-> "none", result |-> DownErr]
Running == [st |-> "running", result |-> DownErr]
Finished(r) == [st |-> "done", result |-> r]

\* State::NotReady { svc, req }, State::Called { fut }, State::Ready { res },
\* State::Done; "None" is a slot whose future does not exist yet.
NoFuture == [state |-> "None", svc |-> 0, req |-> DefaultReq,
             inner |-> NoInner, res |-> DefaultResp]
\* JwtFuture::not_ready
FutNotReady(h, req) == [state |-> "NotReady", svc |-> h, req |-> req,
                        inner |-> NoInner, res |-> DefaultResp]
\* JwtFuture::ready
FutReady(res) == [state |-> "Ready", svc |-> 0, req |-> DefaultReq,
                  inner |-> NoInner, res |-> res]
StateCalled(inner) == [state |-> "Called", svc |-> 0, req |-> DefaultReq,
                       inner |-> inner, res |-> DefaultResp]
StateDone == [state |-> "Done", svc |-> 0, req |-> DefaultReq,
              inner |-> NoInner, res |-> DefaultResp]
\* A JwtFuture that was dropped: nothing of its state is left.
StateDropped == [state |-> "Dropped", svc |-> 0, req |-> DefaultReq,
                 inner |-> NoInner, res |-> DefaultResp]

\* A drop that forgets the future without running the drop of its fields.
DropStateForget(f) ==
    [fut |-> StateDropped, released |-> 0, cancelled |-> FALSE]

\* The drop glue of State<S, S::Future>: NotReady drops the handle svc and
\* the request, Called drops the downstream future, Ready drops the response.
\* released is the handle dropped (0: none), cancelled whether a downstream
\* future was dropped.
DropState(f) ==
    [fut |-> StateDropped,
     released |-> IF f.state = "NotReady" THEN f.svc ELSE 0,
     cancelled |-> f.state = "Called"]

\* ------------------------------------------------------------- Jwt::call
\* The closure `validate` of Jwt::call: extract the token, decode it.
\* Result<H::Input, Error>, with the stages it ran.
ValidateParts(keys, kind, hdr) ==
    LET tok == BearerExtract(hdr) IN
    IF ~tok.some
    THEN [ok |-> FALSE, claims |-> "none", err |-> ErrorExtract,
          events |-> <<"extract:none">>]
    ELSE LET d == DecoderDecode(keys, tok.token, Typed(kind)) IN
         IF ~d.ok
         THEN [ok |-> FALSE, claims |-> "none", err |-> ErrorJwt(d.val),
               events |-> <<"extract:some", "decode:err", d.val>>]
         ELSE [ok |-> TRUE, claims |-> d.val, err |-> ErrorExtract,
               events |-> <<"extract:some", "decode:ok">>]

\* A swap that hands out the stored handle and keeps it too.
SwapSvcShared(stored, clone) == [stored |-> stored, taken |-> stored]

\* let clone = self.svc.clone(); let svc = mem::replace(&mut self.svc, clone);
\* stored is the handle the middleware keeps, taken the one the future gets.
SwapSvc(stored, clone) == [stored |-> clone, taken |-> stored]

\* A call that stores the claims before it asks the decision.
JwtCallStoreFirst(keys, kind, store, stored, fresh, hdr, o) ==
    LET v == ValidateParts(keys, kind, hdr) IN
    IF v.ok
    THEN LET req == StoreFn(store, v.claims, Req(hdr, "none"))
             res == Output(o)
         IN IF res.some
            THEN [fut |-> FutReady(res.res), stored |-> stored, cloned |-> FALSE,
                  asked |-> TRUE,
                  events |-> v.events \o <<"store", "validate:deny">>]
            ELSE LET sw == SwapSvc(stored, fresh)
                 IN [fut |-> FutNotReady(sw.taken, req), stored |-> sw.stored,
                     cloned |-> TRUE, asked |-> TRUE,
                     events |-> v.events \o <<"store", "validate:allow", "swap">>]
    ELSE [fut |-> FutReady(ErrorIntoResponse(v.err)), stored |-> stored,
          cloned |-> FALSE, asked |-> FALSE, events |-> v.events]

\* A call that swaps the stored handle for a clone before it looks at the
\* request, also when it then rejects it.
JwtCallSwapAlways(keys, kind, store, stored, fresh, hdr, o) ==
    LET v == ValidateParts(keys, kind, hdr)
        sw == SwapSvc(stored, fresh)
    IN
    IF v.ok
    THEN LET res == Output(o) IN
         IF res.some
         THEN [fut |-> FutReady(res.res), stored |-> sw.stored, cloned |-> TRUE,
               asked |-> TRUE,
               events |-> v.events \o <<"validate:deny">>]
         ELSE LET req == StoreFn(store, v.claims, Req(hdr, "none"))
              IN [fut |-> FutNotReady(sw.taken, req), stored |-> sw.stored,
                  cloned |-> TRUE, asked |-> TRUE,
                  events |-> v.events \o <<"validate:allow", "store", "swap">>]
    ELSE [fut |-> FutReady(ErrorIntoResponse(v.err)), stored |-> sw.stored,
          cloned |-> TRUE, asked |-> FALSE, events |-> v.events]

\* Jwt::call on a request with header hdr, o being what the decision returns
\* if it is asked, stored the handle in self.svc and fresh the identity a
\* clone of it would get. Gives the future returned, the handle left in
\* self.svc, whether a clone was made and the stages run.
JwtCall(keys, kind, store, stored, fresh, hdr, o) ==
    LET v == ValidateParts(keys, kind, hdr) IN
    IF v.ok
    THEN LET res == Output(o) IN
         IF res.some
         THEN [fut |-> FutReady(res.res), stored |-> stored, cloned |-> FALSE,
               asked |-> TRUE,
               events |-> v.events \o <<"validate:deny">>]
         ELSE LET req == StoreFn(store, v.claims, Req(hdr, "none"))
                  sw == SwapSvc(stored, fresh)
              IN [fut |-> FutNotReady(sw.taken, req), stored |-> sw.stored,
                  cloned |-> TRUE, asked |-> TRUE,
                  events |-> v.events \o <<"validate:allow", "store", "swap">>]
    ELSE [fut |-> FutReady(ErrorIntoResponse(v.err)), stored |-> stored,
          cloned |-> FALSE, asked |-> FALSE, events |-> v.events]

\* A poll_ready that asks the stored downstream handle.
JwtPollReadyInner(storedState) ==
    IF storedState = "ready" THEN "ReadyOk"
    ELSE IF storedState = "failed" THEN "ReadyErr"
    ELSE "Pending"

\* Jwt::poll_ready, given the readiness of the stored downstream handle.
JwtPollReady(storedState) == "ReadyOk"

\* ------------------------------------------------------------- JwtFuture::poll
\* Poll<Result<Response, Infallible>>
Pending == [kind |-> "Pending", tag |-> "", res |-> DefaultResp]
ReadyOk(res) == [kind |-> "Ready", tag |-> "Ok", res |-> res]
Panic == [kind |-> "Panic", tag |-> "", res |-> DefaultResp]
\* Ready(Err(e)): not a value of Result<Response, Infallible>.
ReadyErr(e) == [kind |-> "Ready", tag |-> "Err", res |-> ErrIntoResponse(e)]

\* The error a downstream poll_ready fails with.
SvcError == [ok |-> FALSE, val |-> "unavailable"]

\* A Called arm that hands a downstream error back as the future's error.
PollCalledTransparent(f, events) ==
    IF f.inner.st = "running"
    THEN [fut |-> f, poll |-> Pending, events |-> events, polled |-> f.inner]
    ELSE [fut |-> StateDone,
          poll |-> IF f.inner.result.ok
                   THEN ReadyOk(ResultIntoResponse(f.inner.result))
                   ELSE ReadyErr(f.inner.result.val),
          events |-> events \o <<"fut:ready", "set:Done">>, polled |-> f.inner]

\* The Called arm: poll the downstream future; polled is what that poll saw.
PollCalled(f, events) ==
    IF f.inner.st = "running"
    THEN [fut |-> f, poll |-> Pending, events |-> events, polled |-> f.inner]
    ELSE [fut |-> StateDone, poll |-> ReadyOk(ResultIntoResponse(f.inner.result)),
          events |-> events \o <<"fut:ready", "set:Done">>, polled |-> f.inner]

\* A NotReady arm that returns the error of poll_ready as the future's error.
PollNotReadyTransparent(f, hs, first) ==
    IF hs = "failed"
    THEN [fut |-> StateDone, poll |-> ReadyErr(SvcError.val),
          events |-> <<"poll_ready:err", "set:Done">>, called |-> FALSE,
          polled |-> NoInner]
    ELSE IF hs # "ready"
    THEN [fut |-> f, poll |-> Pending, events |-> <<>>, called |-> FALSE,
          polled |-> NoInner]
    ELSE LET c == PollCalled(StateCalled(first),
                             <<"poll_ready:ok", "call", "set:Called">>)
         IN [fut |-> c.fut, poll |-> c.poll, events |-> c.events, called |-> TRUE,
             polled |-> c.polled]

\* A NotReady arm that calls the handle as soon as it has not failed,
\* without waiting for its poll_ready to return Ready.
PollNotReadyEager(f, hs, first) ==
    IF hs = "failed"
    THEN [fut |-> StateDone, poll |-> ReadyOk(ResultIntoResponse(SvcError)),
          events |-> <<"poll_ready:err", "set:Done">>, called |-> FALSE,
          polled |-> NoInner]
    ELSE LET c == PollCalled(StateCalled(Running),
                             <<"poll_ready:ok", "call", "set:Called">>)
         IN [fut |-> c.fut, poll |-> c.poll, events |-> c.events, called |-> TRUE,
             polled |-> c.polled]

\* The NotReady arm: hs is the readiness of the handle the future owns,
\* first what the downstream future returned by svc.call is on its first poll.
PollNotReady(f, hs, first) ==
    IF hs = "failed"
    THEN [fut |-> StateDone, poll |-> ReadyOk(ResultIntoResponse(SvcError)),
          events |-> <<"poll_ready:err", "set:Done">>, called |-> FALSE,
          polled |-> NoInner]
    ELSE IF hs # "ready"
    THEN [fut |-> f, poll |-> Pending, events |-> <<>>, called |-> FALSE,
          polled |-> NoInner]
    ELSE LET c == PollCalled(StateCalled(first),
                             <<"poll_ready:ok", "call", "set:Called">>)
         IN [fut |-> c.fut, poll |-> c.poll, events |-> c.events, called |-> TRUE,
             polled |-> c.polled]

\* A Ready arm that yields once before it returns the response.
PollReadyYields(f) ==
    [fut |-> f, poll |-> Pending, events |-> <<>>, polled |-> NoInner]

\* A Ready arm that returns the response and leaves the state as it is.
PollReadyStay(f) ==
    [fut |-> f, poll |-> ReadyOk(f.res), events |-> <<>>, polled |-> NoInner]

\* The Ready arm.
PollReady(f) ==
    [fut |-> StateDone, poll |-> ReadyOk(f.res), events |-> <<"set:Done">>,
     polled |-> NoInner]

\* JwtFuture::poll
PollFut(f, hs, first) ==
    IF f.state = "NotReady" THEN PollNotReady(f, hs, first)
    ELSE IF f.state = "Called"
    THEN [called |-> FALSE] @@ PollCalled(f, <<>>)
    ELSE IF f.state = "Ready"
    THEN [called |-> FALSE] @@ PollReady(f)
    ELSE [fut |-> f, poll |-> Panic, events |-> <<>>, called |-> FALSE,
          polled |-> NoInner]

\* ------------------------------------------------------------- state
VARIABLES
    decoder,    \* Jwt.decoder: the key vector of the Decoder
    validate,   \* Jwt.validate: "Discard", "FilterBool" or "FilterResult"
    store,      \* Jwt.store: "noop" or "extension"
    svc,        \* Jwt.svc: the identity of the stored downstream handle
    handles,    \* every downstream handle instance: its readiness
    fut,        \* the JwtFuture of each request
    nextReq,    \* the next request to be dispatched
    recv,       \* history: the Authorization header each request arrived with
    decided,    \* history: what the decision returned for each request
    lastPoll,   \* history: what the last poll of each future returned
    trace,      \* history: the stages run for each request, in order
    out,        \* history: what each future's polls returned as Poll::Ready
    delivered,  \* history: the requests handed to the downstream call
    resolved,   \* history: what each downstream future resolved to
    probe       \* a Decoder::decode call on its own: inputs and result

vars == <<decoder, validate, store, svc, handles, fut, nextReq, recv, decided, lastPoll, trace,
          out, delivered, resolved, probe>>

Reqs == 1..MaxReq
HandleIds == 1..(MaxReq + 1)

NoProbe == [keys |-> <<>>, token |-> NoToken, typed |-> FALSE, done |-> FALSE,
            result |-> [ok |-> FALSE, val |-> "", tried |-> <<>>]]

NoHeader == [kind |-> "none", token |-> NoToken]
NoDecision == [type |-> "none", ok |-> FALSE, err |-> ""]

\* The layers that can be built: layer(decoder), .with_filter(f) and
\* .with_filter(f).store_to_extension().
Configs ==
    {[validate |-> "Discard", store |-> "noop"]}
    \cup {[validate |-> k, store |-> st] :
            k \in {"FilterBool", "FilterResult"}, st \in {"noop", "extension"}}

\* The decoder the middleware is built with: an old and a new key, as during
\* a key rotation.
Decoders == {<<"k1", "k2">>}

\* The middleware after Layer::layer, no request dispatched yet.
InitJwt(keys, cfg) ==
    /\ decoder = keys
    /\ validate = cfg.validate
    /\ store = cfg.store
    /\ svc = 1
    /\ handles = [h \in HandleIds |-> IF h = 1 THEN "idle" ELSE "unborn"]
    /\ fut = [r \in Reqs |-> NoFuture]
    /\ nextReq = 1
    /\ recv = [r \in Reqs |-> NoHeader]
    /\ decided = [r \in Reqs |-> NoDecision]
    /\ lastPoll = [r \in Reqs |-> "none"]
    /\ trace = [r \in Reqs |-> <<>>]
    /\ out = [r \in Reqs |-> <<>>]
    /\ delivered = [r \in Reqs |-> <<>>]
    /\ resolved = [r \in Reqs |-> <<>>]

Init ==
    /\ \E keys \in Decoders, cfg \in Configs : InitJwt(keys, cfg)
    /\ probe = NoProbe

\* The dispatch loop drives the middleware as a tower Service: it calls
\* Jwt::poll_ready and, once that returns Ready(Ok(())), Jwt::call with the
\* next request.
Call(hdr, o) ==
    /\ nextReq <= MaxReq
    /\ JwtPollReady(handles[svc]) = "ReadyOk"
    /\ LET r == nextReq
           fresh == svc + 1
           c == JwtCall(decoder, validate, store, svc, fresh, hdr, o)
       IN /\ fut' = [fut EXCEPT ![r] = c.fut]
          /\ svc' = c.stored
          /\ handles' = IF c.cloned
                        THEN [handles EXCEPT ![fresh] = "idle"]
                        ELSE handles
          /\ trace' = [trace EXCEPT ![r] = c.events]
          /\ recv' = [recv EXCEPT ![r] = hdr]
          /\ decided' = [decided EXCEPT ![r] = IF c.asked THEN o ELSE NoDecision]
    /\ nextReq' = nextReq + 1
    /\ UNCHANGED <<decoder, validate, store, lastPoll, out, delivered, resolved, probe>>

\* The executor polls the future of request r.
Poll(r, first) ==
    /\ fut[r].state \notin {"None", "Dropped"}
    /\ LET f == fut[r]
           hs == IF f.state = "NotReady" THEN handles[f.svc] ELSE "none"
           p == PollFut(f, hs, first)
       IN /\ lastPoll' = [lastPoll EXCEPT ![r] = p.poll.kind]
          /\ fut' = [fut EXCEPT ![r] = p.fut]
          /\ trace' = [trace EXCEPT ![r] = @ \o p.events]
          /\ out' = IF p.poll.kind = "Ready"
                    THEN [out EXCEPT ![r] = Append(@, p.poll)]
                    ELSE out
          /\ delivered' = IF p.called
                          THEN [delivered EXCEPT ![r] =
                                  Append(@, [req |-> f.req, svc |-> f.svc, hs |-> hs])]
                          ELSE delivered
          /\ resolved' = IF p.polled.st = "done"
                         THEN [resolved EXCEPT ![r] = Append(@, p.polled.result)]
                         ELSE resolved
          /\ handles' = IF f.state = "NotReady" /\ p.fut.state # "NotReady"
                        THEN [handles EXCEPT ![f.svc] = "dropped"]
                        ELSE handles
    /\ UNCHANGED <<decoder, validate, store, svc, nextReq, recv, decided, probe>>

\* The downstream handle a future owns becomes ready, or fails.
SvcTurns(r, to) ==
    /\ fut[r].state = "NotReady"
    /\ handles[fut[r].svc] = "idle"
    /\ handles' = [handles EXCEPT ![fut[r].svc] = to]
    /\ UNCHANGED <<decoder, validate, store, svc, fut, nextReq, recv, decided, lastPoll, trace,
                   out, delivered, resolved, probe>>

\* The downstream handler finishes the request it was called with.
DownCompletes(r, result) ==
    /\ fut[r].state = "Called"
    /\ fut[r].inner.st = "running"
    /\ delivered[r] # <<>>
    /\ result \in DownResults(delivered[r][Len(delivered[r])].req)
    /\ fut' = [fut EXCEPT ![r].inner = Finished(result)]
    /\ UNCHANGED <<decoder, validate, store, svc, handles, nextReq, recv, decided, lastPoll, trace,
                   out, delivered, resolved, probe>>

CallAny ==
    \E hdr \in Headers :
        LET v == ValidateParts(decoder, validate, hdr) IN
        \E o \in Validate(validate, v.claims) : Call(hdr, o)

\* What the future returned by the downstream call can be when it is first
\* polled: still running, or already finished.
FirstPolls(r) ==
    IF fut[r].state = "NotReady" /\ handles[fut[r].svc] = "ready"
    THEN {Running} \cup {Finished(d) : d \in DownResults(fut[r].req)}
    ELSE {Running}

PollAny == \E r \in Reqs : \E first \in FirstPolls(r) : Poll(r, first)

SvcTurnsAny == \E r \in Reqs, to \in {"ready", "failed"} : SvcTurns(r, to)

DownCompletesAny ==
    \E r \in Reqs, claims \in ClaimVals :
        \E d \in {DownOk(claims), DownErr} : DownCompletes(r, d)

Next ==
    \/ CallAny
    \/ PollAny
    \/ SvcTurnsAny
    \/ DownCompletesAny

Spec == Init /\ [][Next]_vars

\* ------------------------------------------------------------- cancellation
\* The caller drops the future of request r before it has completed.
DropFuture(r) ==
    /\ fut[r].state \in {"NotReady", "Called", "Ready"}
    /\ LET d == DropState(fut[r])
       IN /\ fut' = [fut EXCEPT ![r] = d.fut]
          /\ handles' = IF d.released # 0
                        THEN [handles EXCEPT ![d.released] = "dropped"]
                        ELSE handles
          /\ trace' = [trace EXCEPT ![r] =
                         @ \o (IF d.released # 0 THEN <<"drop:svc">>
                                ELSE IF d.cancelled THEN <<"drop:fut">>
                                ELSE <<"drop:res">>)]
    /\ UNCHANGED <<decoder, validate, store, svc, nextReq, recv, decided, lastPoll,
                   out, delivered, resolved, probe>>

DropAny == \E r \in Reqs : DropFuture(r)

NextCancel ==
    \/ CallAny
    \/ PollAny
    \/ SvcTurnsAny
    \/ DownCompletesAny
    \/ DropAny

\* The middleware with callers that may cancel.
CancelSpec == Init /\ [][NextCancel]_vars

\* ------------------------------------------------------------- building
\* The program builds a layer with the builder methods, applies it to a
\* service and then serves requests. probe holds the layer being built,
\* whether store_to_extension was called on it and whether it has been
\* applied.
InitLayer ==
    /\ \E keys \in Decoders :
          probe = [layer |-> LayerFn(keys), storeCalled |-> FALSE, applied |-> FALSE]
    /\ decoder = <<>>
    /\ validate = "none"
    /\ store = "none"
    /\ svc = 0
    /\ handles = [h \in HandleIds |-> "unborn"]
    /\ fut = [r \in Reqs |-> NoFuture]
    /\ nextReq = 1
    /\ recv = [r \in Reqs |-> NoHeader]
    /\ decided = [r \in Reqs |-> NoDecision]
    /\ lastPoll = [r \in Reqs |-> "none"]
    /\ trace = [r \in Reqs |-> <<>>]
    /\ out = [r \in Reqs |-> <<>>]
    /\ delivered = [r \in Reqs |-> <<>>]
    /\ resolved = [r \in Reqs |-> <<>>]

\* .with_filter(f), for a layer of type JwtLayer<Discard, X>
CallWithFilter(kind) ==
    /\ ~probe.applied
    /\ probe.layer.validate = "Discard"
    /\ probe' = [probe EXCEPT !.layer = WithFilter(@, kind)]
    /\ UNCHANGED <<decoder, validate, store, svc, handles, fut, nextReq, recv, decided, lastPoll,
                   trace, out, delivered, resolved>>

\* .with_extract(x), for a layer of type JwtLayer<H, Bearer>
CallWithExtract(x) ==
    /\ ~probe.applied
    /\ probe.layer.extract = "Bearer"
    /\ probe' = [probe EXCEPT !.layer = WithExtract(@, x)]
    /\ UNCHANGED <<decoder, validate, store, svc, handles, fut, nextReq, recv, decided, lastPoll,
                   trace, out, delivered, resolved>>

\* .store_to_extension(), for a layer of type JwtLayer<Filter<F, I>, Bearer>
CallStoreToExtension ==
    /\ ~probe.applied
    /\ probe.layer.validate # "Discard"
    /\ probe.layer.extract = "Bearer"
    /\ probe' = [probe EXCEPT !.layer = StoreToExtension(@), !.storeCalled = TRUE]
    /\ UNCHANGED <<decoder, validate, store, svc, handles, fut, nextReq, recv, decided, lastPoll,
                   trace, out, delivered, resolved>>

\* Layer::layer: Router::layer(l) wraps the service in Jwt, which takes the
\* decoder, the decision and the store function of the layer.
Apply ==
    /\ ~probe.applied
    /\ ImplementsLayer(probe.layer)
    /\ probe' = [probe EXCEPT !.applied = TRUE]
    /\ decoder' = probe.layer.decoder
    /\ validate' = probe.layer.validate
    /\ store' = probe.layer.store
    /\ svc' = 1
    /\ handles' = [handles EXCEPT ![1] = "idle"]
    /\ UNCHANGED <<fut, nextReq, recv, decided, lastPoll, trace, out, delivered, resolved>>

NextLayer ==
    \/ \E kind \in {"FilterBool", "FilterResult"} : CallWithFilter(kind)
    \/ \E x \in Extractors : CallWithExtract(x)
    \/ CallStoreToExtension
    \/ Apply
    \/ probe.applied /\ CallAny
    \/ probe.applied /\ PollAny
    \/ probe.applied /\ SvcTurnsAny
    \/ probe.applied /\ DownCompletesAny

LayerSpec == InitLayer /\ [][NextLayer]_vars

\* ------------------------------------------------------------- storing
\* The requests of callers of two kinds, each with a good token signed by
\* one of the decoder's keys, and requests with no token or an expired one.
StoreHeaders ==
    {[kind |-> "missing", token |-> NoToken]}
    \cup {[kind |-> "bearer", token |-> t] :
            t \in {[signer |-> "k1", kind |-> "good", claims |-> "admin"],
                    [signer |-> "k2", kind |-> "good", claims |-> "user"],
                    [signer |-> "k1", kind |-> "expired", claims |-> "user"]}}

\* The middleware of layer(decoder).with_filter(f).store_to_extension().
InitStore ==
    /\ \E keys \in Decoders, k \in {"FilterBool", "FilterResult"} :
          LET l == StoreToExtension(WithFilter(LayerFn(keys), k))
          IN /\ ImplementsLayer(l)
             /\ InitJwt(l.decoder, [validate |-> l.validate, store |-> l.store])
    /\ probe = NoProbe

CallStoring ==
    \E hdr \in StoreHeaders :
        LET v == ValidateParts(decoder, validate, hdr) IN
        \E o \in Validate(validate, v.claims) : Call(hdr, o)

NextStore ==
    \/ CallStoring
    \/ PollAny
    \/ SvcTurnsAny
    \/ DownCompletesAny

StoreSpec == InitStore /\ [][NextStore]_vars

\* ------------------------------------------------------------- two paths
\* Every Authorization header: none, one without "Bearer ", one whose token
\* is not text, and "Bearer " with any token.
AllHeaders ==
    {[kind |-> k, token |-> NoToken] : k \in {"missing", "wrongprefix", "nonutf8"}}
    \cup {[kind |-> "bearer", token |-> t] : t \in Tokens}

NotRun == [ok |-> FALSE, claims |-> "none", err |-> [kind |-> "notrun", val |-> ""]]

\* One request and one decoder, given to a handler that takes Token<T> and
\* Claims<T> and to a middleware whose filter over T allows everything.
InitPaths ==
    /\ InitJwt(<<"k1", "k2">>, [validate |-> "FilterBool", store |-> "noop"])
    /\ \E keys \in KeyLists, hdr \in AllHeaders :
          probe = [keys |-> keys, hdr |-> hdr,
                   token |-> NotRun, claims |-> NotRun,
                   called |-> FALSE, fut |-> NoFuture, polled |-> FALSE,
                   poll |-> Pending]

\* The handler's extractors run on the request.
ProbeExtractors ==
    /\ probe.token = NotRun
    /\ probe' = [probe EXCEPT
                   !.token = TokenFromRequestParts(probe.keys, probe.hdr),
                   !.claims = ClaimsFromRequestParts(probe.keys, probe.hdr)]
    /\ UNCHANGED <<decoder, validate, store, svc, handles, fut, nextReq, recv, decided, lastPoll,
                   trace, out, delivered, resolved>>

\* The middleware is called with the request; its filter returns true.
ProbeCall ==
    /\ ~probe.called
    /\ probe' = [probe EXCEPT
                   !.called = TRUE,
                   !.fut = JwtCall(probe.keys, "FilterBool", "noop", 1, 2, probe.hdr,
                                   BoolOut(TRUE)).fut]
    /\ UNCHANGED <<decoder, validate, store, svc, handles, fut, nextReq, recv, decided, lastPoll,
                   trace, out, delivered, resolved>>

\* The future the middleware returned is polled, its downstream handle idle.
ProbePoll ==
    /\ probe.called
    /\ ~probe.polled
    /\ LET p == PollFut(probe.fut, "idle", Running)
       IN probe' = [probe EXCEPT !.polled = TRUE, !.fut = p.fut, !.poll = p.poll]
    /\ UNCHANGED <<decoder, validate, store, svc, handles, fut, nextReq, recv, decided, lastPoll,
                   trace, out, delivered, resolved>>

NextPaths ==
    \/ ProbeExtractors
    \/ ProbeCall
    \/ ProbePoll

PathsSpec == InitPaths /\ [][NextPaths]_vars

\* ------------------------------------------------------------- decode alone
\* Decoder::decode as a function of its inputs: any key vector with_keys
\* accepts, any token, either claims type.
InitProbe ==
    /\ InitJwt(<<"k1", "k2">>, [validate |-> "Discard", store |-> "noop"])
    /\ \E keys \in KeyLists, t \in Tokens, typed \in BOOLEAN :
          probe = [NoProbe EXCEPT !.keys = keys, !.token = t, !.typed = typed]

ProbeDecode ==
    /\ ~probe.done
    /\ probe' = [probe EXCEPT !.done = TRUE,
                   !.result = DecoderDecode(probe.keys, probe.token, probe.typed)]
    /\ UNCHANGED <<decoder, validate, store, svc, handles, fut, nextReq, recv, decided, lastPoll,
                   trace, out, delivered, resolved>>

NextProbe == ProbeDecode

DecodeSpec == InitProbe /\ [][NextProbe]_vars

\* ------------------------------------------------------------- construction
\* The key vectors a caller may hand to with_keys, the empty one included.
KeyVectors == UNION {[1..n -> KeyIds] : n \in 0..MaxKeys}

\* A constructor call: which one and with what keys.
CtorCalls ==
    {[ctor |-> c, keys |-> <<k>>] : c \in {"from_key", "new"}, k \in KeyIds}
    \cup {[ctor |-> "with_keys", keys |-> ks] : ks \in KeyVectors}

InitBuild ==
    /\ InitJwt(<<"k1", "k2">>, [validate |-> "Discard", store |-> "noop"])
    /\ \E c \in CtorCalls, t \in Tokens, typed \in BOOLEAN :
          probe = [call |-> c, token |-> t, typed |-> typed, stage |-> "start",
                   built |-> NoDecoder,
                   result |-> [ok |-> FALSE, val |-> "", tried |-> <<>>]]

\* The constructor runs.
ProbeConstruct ==
    /\ probe.stage = "start"
    /\ probe' = [probe EXCEPT
                   !.stage = "built",
                   !.built = IF probe.call.ctor = "from_key"
                             THEN FromKey(probe.call.keys[1])
                             ELSE IF probe.call.ctor = "new"
                             THEN New(probe.call.keys[1])
                             ELSE WithKeys(probe.call.keys)]
    /\ UNCHANGED <<decoder, validate, store, svc, handles, fut, nextReq, recv, decided, lastPoll,
                   trace, out, delivered, resolved>>

\* The decoder that was built decodes a token.
ProbeDecodeBuilt ==
    /\ probe.stage = "built"
    /\ probe.built.some
    /\ probe' = [probe EXCEPT
                   !.stage = "decoded",
                   !.result = DecoderDecode(probe.built.keys, probe.token, probe.typed)]
    /\ UNCHANGED <<decoder, validate, store, svc, handles, fut, nextReq, recv, decided, lastPoll,
                   trace, out, delivered, resolved>>

NextBuild ==
    \/ ProbeConstruct
    \/ ProbeDecodeBuilt

BuildSpec == InitBuild /\ [][NextBuild]_vars

\* ------------------------------------------------------------- extract alone
\* How an Authorization value may begin: "Bearer ", "bearer ", "BEARER ",
\* "Bearer" with no space, " Bearer " with a space before it, "Basic ", or
\* nothing.
Leads ==
    {BearerPrefix,
     <<98, 101, 97, 114, 101, 114, 32>>,
     <<66, 69, 65, 82, 69, 82, 32>>,
     <<66, 101, 97, 114, 101, 114>>,
     <<32, 66, 101, 97, 114, 101, 114, 32>>,
     <<66, 97, 115, 105, 99, 32>>,
     <<>>}

\* The bytes that follow: "a", a space, the two bytes of U+00E9 and 0xFF.
TailBytes == {97, 32, 195, 169, 255}
Tails == UNION {[1..n -> TailBytes] : n \in 0..MaxTail}

\* The header maps Bearer::extract is given.
AuthHeaders ==
    {NoAuthorization} \cup {Authorization(l \o t) : l \in Leads, t \in Tails}

InitExtract ==
    /\ InitJwt(<<"k1", "k2">>, [validate |-> "Discard", store |-> "noop"])
    /\ \E a \in AuthHeaders :
          probe = [auth |-> a, done |-> FALSE, result |-> NoneBytes]

ProbeExtract ==
    /\ ~probe.done
    /\ probe' = [probe EXCEPT !.done = TRUE,
                   !.result = BearerExtractBytes(probe.auth)]
    /\ UNCHANGED <<decoder, validate, store, svc, handles, fut, nextReq, recv, decided, lastPoll,
                   trace, out, delivered, resolved>>

NextExtract == ProbeExtract

ExtractSpec == InitExtract /\ [][NextExtract]_vars

TypeOK ==
    /\ decoder \in Decoders
    /\ svc \in HandleIds
    /\ nextReq \in 1..(MaxReq + 1)
    /\ \A r \in Reqs :
          fut[r].state \in {"None", "NotReady", "Called", "Ready", "Done", "Dropped"}

\* ------------------------------------------------------------- properties
\* The key vectors that order the same keys differently.
Reorderings(keys) ==
    {[i \in DOMAIN keys |-> keys[p[i]]] : p \in Permutations(DOMAIN keys)}

\* Some key of the vector verifies the token under the shared validation.
SomeKeyVerifies(keys, token, typed) ==
    \E i \in DOMAIN keys : JwtDecode(token, keys[i], typed).ok

\* C1: Decoder::decode returns Ok exactly when at least one key of the list
\* verifies the token, and every reordering of the key list gives the same
\* success or failure.
C1_DecodeOkIffSomeKey ==
    probe.done =>
        /\ probe.result.ok = SomeKeyVerifies(probe.keys, probe.token, probe.typed)
        /\ \A ks \in Reorderings(probe.keys) :
              DecoderDecode(ks, probe.token, probe.typed).ok = probe.result.ok

\* A token signed by the second of two different keys was decoded, with success.
C1_Witness ==
    /\ probe.done
    /\ Len(probe.keys) = 2
    /\ probe.keys[1] # probe.keys[2]
    /\ probe.token.kind = "good"
    /\ probe.token.signer = probe.keys[2]
    /\ probe.result.ok

Has(tr, e) == \E i \in DOMAIN tr : tr[i] = e

\* The handles owned by futures that have not called downstream yet.
Owned(r) == fut[r].state = "NotReady"

\* C2: with overlapping futures, the downstream handle a forwarded request's
\* future owns is a live instance, different from the handle of every other
\* such future and from the one stored in the middleware; the swap is done
\* by call, so this holds before the future is first polled.
C2_HandlesDistinct ==
    \A r \in Reqs :
        Owned(r) =>
            /\ fut[r].svc # svc
            /\ handles[fut[r].svc] \in {"idle", "ready", "failed"}
            /\ handles[svc] = "idle"
            /\ \A q \in Reqs \ {r} : Owned(q) => fut[q].svc # fut[r].svc

\* Two forwarded requests overlap: one was polled and is waiting for its
\* handle, the other has not been polled yet.
C2_Witness ==
    /\ MaxReq >= 2
    /\ Owned(1) /\ Owned(2)
    /\ lastPoll[1] = "Pending"
    /\ lastPoll[2] = "none"

\* The request carries no token, or a token no key of the decoder verifies;
\* equally, extraction returned absent or decode returned an error.
RejectedEarly(r) ==
    \/ recv[r].kind \in {"missing", "wrongprefix"}
    \/ recv[r].kind = "bearer"
          /\ ~SomeKeyVerifies(decoder, recv[r].token, Typed(validate))
    \/ Has(trace[r], "extract:none")
    \/ Has(trace[r], "decode:err")

DownstreamStages == {"poll_ready:ok", "poll_ready:err", "call", "set:Called"}
DecisionStages == {"validate:allow", "validate:deny"}

\* C3: a request with no token, or whose token fails to decode (malformed,
\* bad signature, expired, claims of the wrong shape), is answered 401
\* Unauthorized, and neither the decision nor the downstream handler
\* (poll_ready, call) is invoked for it, at call time or on any later poll.
C3_RejectUnauthorized ==
    \A r \in Reqs :
        RejectedEarly(r) =>
            /\ fut[r].state \in {"Ready", "Done"}
            /\ fut[r].state = "Ready" => fut[r].res.status = UNAUTHORIZED
            /\ fut[r].state = "Done" => Len(out[r]) = 1
            /\ \A i \in DOMAIN out[r] : out[r][i].res.status = UNAUTHORIZED
            /\ decided[r] = NoDecision
            /\ delivered[r] = <<>>
            /\ \A e \in DecisionStages \cup DownstreamStages \cup {"store", "swap"} :
                  ~Has(trace[r], e)

\* One request without a header and one with an expired token, both polled
\* to completion.
C3_Witness ==
    /\ MaxReq >= 2
    /\ recv[1].kind = "missing" /\ Has(trace[1], "extract:none")
    /\ recv[2].token.kind = "expired" /\ Has(trace[2], "decode:err")
    /\ fut[1].state = "Done" /\ fut[2].state = "Done"
    /\ out[1] = <<ReadyOk(Unauthorized)>>
    /\ out[2] = <<ReadyOk(Unauthorized)>>

\* What a denying decision value converts to: the fixed 401 for false, the
\* error's own response for Err(e).
DenialOf(o) ==
    IF o.type = "bool" THEN Unauthorized ELSE ErrIntoResponse(o.err)

\* C4: with a Filter decision, a request the decision denies never reaches
\* the downstream handler and is answered with exactly the decision's
\* response (401 for false, e's own response for Err(e)); a request it
\* allows (true, Ok(())) is forwarded.
C4_FilterDecision ==
    \A r \in Reqs :
        (validate # "Discard" /\ decided[r] # NoDecision) =>
            /\ decided[r].type = (IF validate = "FilterBool" THEN "bool" ELSE "result")
            /\ IF decided[r].ok
               THEN /\ fut[r].state \in {"NotReady", "Called", "Done"}
                    /\ Has(trace[r], "swap")
                    /\ fut[r].state = "NotReady" => fut[r].req.hdr = recv[r]
                    /\ \A i \in DOMAIN delivered[r] : delivered[r][i].req.hdr = recv[r]
                    /\ fut[r].state = "Called" => Len(delivered[r]) = 1
               ELSE /\ fut[r].state \in {"Ready", "Done"}
                    /\ fut[r].state = "Ready" => fut[r].res = DenialOf(decided[r])
                    /\ fut[r].state = "Done" => Len(out[r]) = 1
                    /\ \A i \in DOMAIN out[r] : out[r][i] = ReadyOk(DenialOf(decided[r]))
                    /\ delivered[r] = <<>>
                    /\ \A e \in DownstreamStages \cup {"store", "swap"} :
                          ~Has(trace[r], e)

\* A Result filter refused one request with its own 418 response, which the
\* future returned, and let another through to the downstream handler.
C4_Witness ==
    /\ MaxReq >= 2
    /\ validate = "FilterResult"
    /\ decided[1] = ResultErr("teapot")
    /\ fut[1].state = "Done"
    /\ out[1] = <<ReadyOk(Resp(418, "teapot"))>>
    /\ decided[2] = ResultOk
    /\ Len(delivered[2]) = 1

\* The request's token decodes under the decoder when the claims type is
\* IgnoredAny.
DecodesForDiscard(r) ==
    /\ recv[r].kind = "bearer"
    /\ SomeKeyVerifies(decoder, recv[r].token, FALSE)

\* C5: with the default decision (Discard), every request whose token
\* decodes is forwarded: the downstream call is invoked exactly once with
\* that request, once poll_ready on the handle succeeded, and the future's
\* output is the downstream result converted to a response.
C5_DiscardForwards ==
    \A r \in Reqs :
        (validate = "Discard" /\ DecodesForDiscard(r)) =>
            /\ fut[r].state \in {"NotReady", "Called", "Done"}
            /\ decided[r] = BoolOut(TRUE)
            /\ fut[r].state = "NotReady" => fut[r].req = Req(recv[r], "none")
            /\ Len(delivered[r]) = (IF Has(trace[r], "poll_ready:ok") THEN 1 ELSE 0)
            /\ \A i \in DOMAIN delivered[r] :
                  /\ delivered[r][i].req = Req(recv[r], "none")
                  /\ delivered[r][i].hs = "ready"
            /\ (fut[r].state = "Done" /\ delivered[r] # <<>>) =>
                  /\ Len(resolved[r]) = 1
                  /\ out[r] = <<ReadyOk(ResultIntoResponse(resolved[r][1]))>>

\* A token whose payload has an unexpected shape, which IgnoredAny accepts,
\* went through Discard; the handler answered and the future returned that
\* answer.
C5_Witness ==
    /\ validate = "Discard"
    /\ recv[1].token.kind = "schema"
    /\ fut[1].state = "Done"
    /\ Len(delivered[1]) = 1
    /\ resolved[1] = <<DownOk("user")>>
    /\ out[1] = <<ReadyOk(Resp(200, "user"))>>

\* C6: whatever the request and whatever the downstream handler does, every
\* completion of the future is Ok(response), never Err; a completed future
\* completed exactly once.
C6_AlwaysOkResponse ==
    \A r \in Reqs :
        /\ \A i \in DOMAIN out[r] : out[r][i].kind = "Ready" /\ out[r][i].tag = "Ok"
        /\ fut[r].state = "Done" => Len(out[r]) = 1
        /\ lastPoll[r] = "Ready" => Len(out[r]) = 1

\* One future completed after its handle's poll_ready failed, another after
\* the downstream call failed: both with Ok(response).
C6_Witness ==
    /\ MaxReq >= 2
    /\ Has(trace[1], "poll_ready:err")
    /\ out[1] = <<ReadyOk(Resp(500, "unavailable"))>>
    /\ resolved[2] = <<DownErr>>
    /\ out[2] = <<ReadyOk(Resp(500, "boom"))>>

\* The order of the states on the two paths of a future.
StatePos(st) ==
    IF st = "None" THEN 0
    ELSE IF st \in {"Ready", "NotReady"} THEN 1
    ELSE IF st = "Called" THEN 2
    ELSE 3

\* A change of state that moves forward on one of the paths Ready -> Done
\* and NotReady -> Called -> Done.
MovesForward(a, b) ==
    /\ StatePos(a) < StatePos(b)
    /\ a = "Ready" => b = "Done"
    /\ a = "None" => b \in {"Ready", "NotReady"}

\* The state.set calls of a future, in order.
SetsOf(tr) == SelectSeq(tr, LAMBDA e : e \in {"set:Called", "set:Done"})

\* A step of request r's future as C7 allows it.
C7_Step(r) ==
    /\ fut'[r].state # fut[r].state => MovesForward(fut[r].state, fut'[r].state)
    /\ out'[r] # out[r] =>
          /\ out[r] = <<>>
          /\ Len(out'[r]) = 1
          /\ fut'[r].state = "Done"
    /\ (\E first \in FirstPolls(r) : Poll(r, first)) =>
          IF out[r] # <<>>
          THEN lastPoll'[r] = "Panic" /\ out'[r] = out[r] /\ fut'[r] = fut[r]
          ELSE lastPoll'[r] # "Panic"

\* What C7 says of every state.
C7_State(r) ==
    /\ Len(out[r]) <= 1
    /\ fut[r].state = "Done" <=> Len(out[r]) = 1
    /\ lastPoll[r] = "Panic" => fut[r].state = "Done"
    /\ SetsOf(trace[r]) \in {<<>>, <<"set:Done">>, <<"set:Called">>,
                              <<"set:Called", "set:Done">>}

\* C7: the state of a future only moves forward on Ready -> Done or
\* NotReady -> Called -> Done (a failed poll_ready takes NotReady to Done
\* at once) and no state is entered again; a poll that returns Poll::Ready
\* leaves the state Done, so there is at most one output; a poll after that
\* panics and returns nothing.
C7_ForwardOnly ==
    /\ [](\A r \in Reqs : C7_State(r))
    /\ [][\A r \in Reqs : C7_Step(r)]_vars

\* One forwarded future went NotReady, Called, Done and one rejected future
\* went Ready, Done; both were polled again afterwards.
C7_Witness ==
    /\ MaxReq >= 2
    /\ SetsOf(trace[1]) = <<"set:Called", "set:Done">>
    /\ lastPoll[1] = "Panic" /\ Len(out[1]) = 1
    /\ Has(trace[2], "extract:none")
    /\ SetsOf(trace[2]) = <<"set:Done">>
    /\ lastPoll[2] = "Panic" /\ Len(out[2]) = 1

\* The place of each stage in the order of a request's processing.
StageRank(e) ==
    IF e \in {"extract:none", "extract:some"} THEN 1
    ELSE IF e \in {"decode:ok", "decode:err"} THEN 2
    ELSE IF e \in {"InvalidToken", "InvalidSignature", "ExpiredSignature", "Json",
                   "panic: take error"} THEN 3
    ELSE IF e \in {"validate:allow", "validate:deny"} THEN 4
    ELSE IF e = "store" THEN 5
    ELSE IF e = "swap" THEN 6
    ELSE IF e \in {"poll_ready:ok", "poll_ready:err"} THEN 7
    ELSE IF e = "call" THEN 8
    ELSE IF e = "set:Called" THEN 9
    ELSE IF e = "fut:ready" THEN 10
    ELSE 11

\* A stage that failed, and the stages that may still follow it.
FailedStages == {"extract:none", "decode:err", "validate:deny", "poll_ready:err"}
AfterFailure == {"InvalidToken", "InvalidSignature", "ExpiredSignature", "Json",
                 "set:Done"}

\* C8: within one request the stages run in strict order and each at most
\* once: extraction, decode, the decision, the store, then the downstream
\* poll_ready that succeeds and the call; a stage runs only if the stage
\* before it succeeded.
C8_StageOrder ==
    \A r \in Reqs :
        LET tr == trace[r] IN
        /\ \A i, j \in DOMAIN tr : i < j => StageRank(tr[i]) < StageRank(tr[j])
        /\ \A i, j \in DOMAIN tr :
              (i < j /\ tr[i] \in FailedStages) => tr[j] \in AfterFailure
        /\ tr # <<>> => StageRank(tr[1]) = 1
        /\ (Has(tr, "decode:ok") \/ Has(tr, "decode:err")) => Has(tr, "extract:some")
        /\ (Has(tr, "validate:allow") \/ Has(tr, "validate:deny")) =>
              Has(tr, "decode:ok")
        /\ Has(tr, "store") => Has(tr, "validate:allow")
        /\ Has(tr, "swap") => Has(tr, "store")
        /\ (Has(tr, "poll_ready:ok") \/ Has(tr, "poll_ready:err")) => Has(tr, "swap")
        /\ Has(tr, "call") => Has(tr, "poll_ready:ok")
        /\ Len(delivered[r]) = (IF Has(tr, "call") THEN 1 ELSE 0)
        /\ (decided[r] # NoDecision) <=>
              (Has(tr, "validate:allow") \/ Has(tr, "validate:deny"))
        /\ (fut[r].state # "None") <=> tr # <<>>

\* A request went through every stage, the claims stored in its extensions,
\* and a second one stopped at the decision.
C8_Witness ==
    /\ MaxReq >= 2
    /\ store = "extension"
    /\ trace[1] = <<"extract:some", "decode:ok", "validate:allow", "store", "swap",
                    "poll_ready:ok", "call", "set:Called", "fut:ready", "set:Done">>
    /\ Len(delivered[1]) = 1
    /\ delivered[1][1].req.ext = recv[1].token.claims
    /\ trace[2] = <<"extract:some", "decode:ok", "validate:deny", "set:Done">>

\* C9: in every reachable state, whatever number of forwarded requests are
\* still with their downstream handlers and although the downstream handle
\* is not ready, Jwt::poll_ready returns Ready(Ok(())) and the next
\* Jwt::call is accepted at once.
C9_AlwaysReady ==
    /\ JwtPollReady(handles[svc]) = "ReadyOk"
    /\ nextReq <= MaxReq => ENABLED CallAny

\* The first request is with its downstream handler, which has not
\* answered, the stored handle has never been made ready, and the next
\* request can be dispatched.
C9_Witness ==
    /\ nextReq = 2
    /\ nextReq <= MaxReq
    /\ fut[1].state = "Called"
    /\ fut[1].inner.st = "running"
    /\ lastPoll[1] = "Pending"
    /\ handles[svc] = "idle"
    /\ JwtPollReady(handles[svc]) = "ReadyOk"
    /\ ENABLED CallAny

\* The executor polls request r's future, which has not completed.
PollLive(r) ==
    /\ fut[r].state # "Done"
    /\ \E first \in FirstPolls(r) : Poll(r, first)

\* The downstream handler finishes request r.
DownCompletesFor(r) ==
    \E claims \in ClaimVals : \E d \in {DownOk(claims), DownErr} : DownCompletes(r, d)

\* Request r's future is polled fairly, the handle it owns becomes ready and
\* the downstream call made for it completes; nothing is assumed of the
\* other requests.
FairFor(r) ==
    /\ WF_vars(PollLive(r))
    /\ WF_vars(SvcTurns(r, "ready"))
    /\ WF_vars(DownCompletesFor(r))

Admitted(r) == fut[r].state \in {"NotReady", "Called"}

\* The future of request r completed with the result of its own downstream
\* call (or with the error of its own handle's poll_ready).
CompletedOwn(r) ==
    /\ fut[r].state = "Done"
    /\ Len(out[r]) = 1
    /\ IF Has(trace[r], "poll_ready:err")
       THEN out[r][1] = ReadyOk(ResultIntoResponse(SvcError))
       ELSE /\ Len(delivered[r]) = 1
            /\ delivered[r][1].req.hdr = recv[r]
            /\ Len(resolved[r]) = 1
            /\ resolved[r][1] \in DownResults(Req(recv[r], "none"))
            /\ out[r][1] = ReadyOk(ResultIntoResponse(resolved[r][1]))

\* C10: of the requests admitted through one middleware instance, each one
\* whose own future is polled fairly, whose own handle becomes ready and
\* whose own downstream call completes, eventually completes with its own
\* downstream result, whether or not any other request ever completes.
C10_EachCompletes ==
    \A r \in Reqs : FairFor(r) => (Admitted(r) ~> CompletedOwn(r))

\* The second request completed with its own result while the first, which
\* was admitted before it, is still waiting for its handle.
C10_Witness ==
    /\ MaxReq >= 2
    /\ fut[1].state = "NotReady"
    /\ recv[1].token.claims = "admin"
    /\ recv[2].token.claims = "user"
    /\ CompletedOwn(2)
    /\ out[2] = <<ReadyOk(Resp(200, "user"))>>

\* ------------------------------------------------------------- C11
LiveHandle(h) == handles[h] \in {"idle", "ready", "failed"}

\* The stored state of the middleware: handle, decoder, decision, store.
Stored == <<svc, decoder, validate, store>>

\* The calls that swapped a clone in, whatever became of their futures.
Swapped == {r \in Reqs : Has(trace[r], "swap")}

\* What C11 says of every state: a handle that is alive is the stored one or
\* is owned by a future still in NotReady (so none outlives a dropped
\* future); a dropped future holds nothing, is not polled again and its
\* downstream call is not driven on; the stored handle depends on the calls
\* made alone, not on which futures were dropped and which completed.
C11_State ==
    /\ \A h \in HandleIds :
          LiveHandle(h) =>
              \/ h = svc
              \/ \E r \in Reqs : fut[r].state = "NotReady" /\ fut[r].svc = h
    /\ \A r \in Reqs :
          fut[r].state = "Dropped" =>
              /\ fut[r] = StateDropped
              /\ out[r] = <<>>
              /\ ~ENABLED PollLive(r)
              /\ ~ENABLED DownCompletesFor(r)
              /\ ~ENABLED SvcTurns(r, "ready")
    /\ svc = 1 + Cardinality(Swapped)
    /\ handles[svc] = "idle"
    /\ nextReq <= MaxReq => ENABLED CallAny

\* What C11 says of a step that drops the future of request r.
C11_Step(r) ==
    DropFuture(r) =>
        /\ Stored' = Stored
        /\ handles'[svc] = handles[svc]
        /\ fut[r].state = "NotReady" => handles'[fut[r].svc] = "dropped"
        /\ fut[r].state = "Called" => fut'[r].inner = NoInner
        /\ \A q \in Reqs \ {r} : fut'[q] = fut[q]
        /\ \A h \in HandleIds : (h # fut[r].svc) => handles'[h] = handles[h]
        /\ <<out, delivered, resolved>>' = <<out, delivered, resolved>>

\* C11: dropping a future in NotReady or Called drops the downstream handle
\* or the downstream future it owns, and leaves the stored handle, the
\* decoder, the decision and the store function as a normal completion
\* leaves them (unchanged), so that the next call is accepted and runs on
\* the same stored state.
C11_CancelLeavesNoTrace ==
    /\ [](C11_State)
    /\ [][\A r \in Reqs : C11_Step(r)]_vars
    /\ [][(\E r \in Reqs : DropFuture(r) \/ \E first \in FirstPolls(r) : Poll(r, first))
            => Stored' = Stored]_vars

\* The first request was cancelled while waiting for its handle, after a
\* poll; the second was forwarded and completed with its own downstream
\* result.
C11_Witness ==
    /\ MaxReq >= 2
    /\ fut[1].state = "Dropped"
    /\ trace[1] = <<"extract:some", "decode:ok", "validate:allow", "store", "swap",
                    "drop:svc">>
    /\ lastPoll[1] = "Pending"
    /\ handles[1] = "dropped"
    /\ svc = 3
    /\ CompletedOwn(2)

\* ------------------------------------------------------------- C12
\* The value begins with the seven bytes of "Bearer ", compared one by one.
BeginsWithBearer(v) ==
    /\ Len(v) >= 7
    /\ v[1] = 66 /\ v[2] = 101 /\ v[3] = 97 /\ v[4] = 114
    /\ v[5] = 101 /\ v[6] = 114 /\ v[7] = 32

\* What follows the first seven bytes.
AfterBearer(v) == [i \in 1..(Len(v) - 7) |-> v[i + 7]]

\* The UTF-8 encoding of a scalar value below U+0800.
Utf8Encode(cp) ==
    IF cp < 128 THEN <<cp>> ELSE <<192 + (cp \div 64), 128 + (cp % 64)>>

RECURSIVE Utf8EncodeAll(_)
Utf8EncodeAll(cps) ==
    IF cps = <<>> THEN <<>>
    ELSE Utf8Encode(Head(cps)) \o Utf8EncodeAll(Tail(cps))

\* The bytes are the encoding of some text: of scalar values that encode to
\* bytes of TailBytes ("a", space, U+00E9).
IsText(b) ==
    \E n \in 0..Len(b) : \E cps \in [1..n -> {97, 32, 233}] : Utf8EncodeAll(cps) = b

\* C12: Bearer::extract returns exactly the bytes after the case-sensitive
\* prefix "Bearer " (the empty string when nothing follows), and absent when
\* the header is missing, when the value does not begin with that prefix or
\* when the remainder is not valid UTF-8.
C12_BearerExact ==
    probe.done =>
        LET a == probe.auth IN
        IF a.present /\ BeginsWithBearer(a.value) /\ IsText(AfterBearer(a.value))
        THEN /\ probe.result = SomeBytes(AfterBearer(a.value))
             /\ BearerPrefix \o probe.result.bytes = a.value
        ELSE probe.result = NoneBytes

\* "Bearer " with nothing after it gave the empty token.
C12_Witness ==
    /\ probe.done
    /\ probe.auth = Authorization(BearerPrefix)
    /\ probe.result = SomeBytes(<<>>)

\* ------------------------------------------------------------- C13
\* C13: with_keys gives None for the empty vector and otherwise a decoder
\* with the given keys in the given order; from_key and new give a decoder
\* of exactly one key; so a decoder has at least one key, and decode on it
\* returns a value or an error of some key, never the panic of
\* expect("take error").
C13_AtLeastOneKey ==
    /\ probe.stage # "start" =>
          /\ probe.call.ctor = "with_keys" =>
                /\ probe.built.some <=> probe.call.keys # <<>>
                /\ probe.built.some => probe.built.keys = probe.call.keys
          /\ probe.call.ctor \in {"from_key", "new"} =>
                /\ probe.built.some
                /\ Len(probe.built.keys) = 1
                /\ probe.built.keys[1] = probe.call.keys[1]
          /\ probe.built.some => Len(probe.built.keys) >= 1
    /\ probe.stage = "decoded" =>
          /\ probe.result.val # "panic: take error"
          /\ probe.result.tried # <<>>
          /\ ~probe.result.ok =>
                \E i \in DOMAIN probe.built.keys :
                    probe.result.val =
                        JwtDecode(probe.token, probe.built.keys[i], probe.typed).val

\* A decoder built by with_keys from two keys failed a token with the error
\* of a key.
C13_Witness ==
    /\ probe.stage = "decoded"
    /\ probe.call.ctor = "with_keys"
    /\ Len(probe.built.keys) = 2
    /\ ~probe.result.ok
    /\ probe.result.val = "InvalidSignature"

\* with_keys was given the empty vector and returned None.
C13_WitnessEmpty ==
    /\ probe.stage = "built"
    /\ probe.call = [ctor |-> "with_keys", keys |-> <<>>]
    /\ probe.built = NoDecoder

\* ------------------------------------------------------------- C14
\* C14: when no key of the decoder verifies the token, the error decode
\* returns is the one the last key in construction order produced; what the
\* earlier keys answered is discarded.
C14_LastErrorWins ==
    (probe.done /\ ~SomeKeyVerifies(probe.keys, probe.token, probe.typed)) =>
        /\ ~probe.result.ok
        /\ probe.result.val =
              JwtDecode(probe.token, probe.keys[Len(probe.keys)], probe.typed).val

\* An expired token signed by the first of two keys: the first key answers
\* ExpiredSignature, the second InvalidSignature, and decode returns the
\* second.
C14_Witness ==
    /\ probe.done
    /\ Len(probe.keys) = 2
    /\ probe.token.kind = "expired"
    /\ probe.token.signer = probe.keys[1]
    /\ JwtDecode(probe.token, probe.keys[1], probe.typed).val = "ExpiredSignature"
    /\ probe.result = [ok |-> FALSE, val |-> "InvalidSignature", tried |-> <<1, 2>>]

\* ------------------------------------------------------------- C20
\* The first key of the vector that verifies the token (0: none does).
FirstVerifying(keys, token, typed) ==
    IF SomeKeyVerifies(keys, token, typed)
    THEN CHOOSE i \in DOMAIN keys :
            /\ JwtDecode(token, keys[i], typed).ok
            /\ \A j \in 1..(i - 1) : ~JwtDecode(token, keys[j], typed).ok
    ELSE 0

\* C20: decode tries the keys in construction order, one after the other
\* from the first, and returns what the first verifying key gave: the keys
\* tried are exactly those up to it, all before it having failed, and none
\* after it is tried; when no key verifies every key was tried, in order.
C20_FirstSuccessShortCircuits ==
    probe.done =>
        LET n == FirstVerifying(probe.keys, probe.token, probe.typed)
            upto == IF n = 0 THEN Len(probe.keys) ELSE n
        IN /\ probe.result.tried = [i \in 1..upto |-> i]
           /\ n # 0 =>
                 /\ probe.result.ok
                 /\ probe.result.val =
                       JwtDecode(probe.token, probe.keys[n], probe.typed).val
                 /\ \A j \in 1..(n - 1) :
                       ~JwtDecode(probe.token, probe.keys[j], probe.typed).ok
           /\ n = 0 => ~probe.result.ok

\* The first of two keys verified the token and the second, which would
\* have verified it too, was not tried.
C20_Witness ==
    /\ probe.done
    /\ Len(probe.keys) = 2
    /\ JwtDecode(probe.token, probe.keys[1], probe.typed).ok
    /\ JwtDecode(probe.token, probe.keys[2], probe.typed).ok
    /\ probe.result.ok
    /\ probe.result.tried = <<1>>

\* ------------------------------------------------------------- C15
\* The errors jsonwebtoken::decode answers with.
JwtErrorKinds == {"InvalidToken", "InvalidSignature", "ExpiredSignature", "Json"}

\* Request r was refused for one of the default reasons: no token, a token
\* that does not decode, or a bool decision that returned false.
RefusedByDefault(r) ==
    \/ Has(trace[r], "extract:none")
    \/ Has(trace[r], "decode:err")
    \/ decided[r] = BoolOut(FALSE)

\* C15: with the default conversions, a request without a token, one whose
\* token fails to decode (whatever the error) and one a bool decision denies
\* get the same response, 401 Unauthorized with an empty body: Error::Extract,
\* every Error::Jwt(_) and the denial convert to one value, so two refused
\* requests cannot be told apart by their responses.
C15_RefusalsIdentical ==
    /\ \A e \in JwtErrorKinds :
          /\ ErrorIntoResponse(ErrorJwt(e)) = ErrorIntoResponse(ErrorExtract)
          /\ SomeResp(ErrorIntoResponse(ErrorJwt(e))) = OutputBool(BoolOut(FALSE))
    /\ \A r \in Reqs :
          RefusedByDefault(r) =>
              /\ fut[r].state \in {"Ready", "Done"}
              /\ fut[r].state = "Ready" => fut[r].res = Unauthorized
              /\ \A i \in DOMAIN out[r] : out[r][i] = ReadyOk(Unauthorized)
    /\ \A r, q \in Reqs :
          (RefusedByDefault(r) /\ RefusedByDefault(q)
             /\ fut[r].state = "Done" /\ fut[q].state = "Done") =>
              out[r] = out[q]

\* One request's token failed to decode and the bool decision denied
\* another: both futures returned the same response.
C15_Witness ==
    /\ MaxReq >= 2
    /\ validate = "FilterBool"
    /\ Has(trace[1], "decode:err") /\ Has(trace[1], "InvalidToken")
    /\ decided[2] = BoolOut(FALSE)
    /\ fut[1].state = "Done" /\ fut[2].state = "Done"
    /\ out[1] = <<ReadyOk(Unauthorized)>>
    /\ out[2] = out[1]

\* ------------------------------------------------------------- C16
\* C16: a middleware built from layer(decoder), with or without with_filter
\* and without store_to_extension, has the no-op store function, and every
\* request it forwards reaches the downstream handler with the headers, the
\* extensions and the body it came in with.
C16_NoInjectionByDefault ==
    (probe.applied /\ ~probe.storeCalled) =>
        /\ store = "noop"
        /\ \A r \in Reqs :
              /\ fut[r].state = "NotReady" => fut[r].req = Req(recv[r], "none")
              /\ \A i \in DOMAIN delivered[r] :
                    /\ delivered[r][i].req.hdr = recv[r]
                    /\ delivered[r][i].req.ext = "none"
                    /\ delivered[r][i].req.body = "body"
              /\ Has(trace[r], "call") => Len(delivered[r]) = 1

\* A layer built with with_filter alone forwarded a request whose token
\* carries the claims "admin"; the handler got it with empty extensions.
C16_Witness ==
    /\ probe.applied
    /\ ~probe.storeCalled
    /\ probe.layer.validate = "FilterBool"
    /\ recv[1].token.claims = "admin"
    /\ Has(trace[1], "store")
    /\ Len(delivered[1]) = 1
    /\ delivered[1][1].req = Req(recv[1], "none")

\* ------------------------------------------------------------- C17
\* The failure policies a caller can select by building a layer.
SelectablePolicies ==
    UNION {{FailurePolicy(l) : l \in BuildableLayers(keys)} : keys \in Decoders}

\* The downstream handler failed request r: its handle's poll_ready or the
\* future of its call returned an error.
DownstreamFailed(r) ==
    \/ Has(trace[r], "poll_ready:err")
    \/ resolved[r] # <<>> /\ ~resolved[r][1].ok

\* The error the downstream handler failed request r with.
DownstreamError(r) ==
    IF Has(trace[r], "poll_ready:err") THEN SvcError ELSE resolved[r][1]

\* C17 as stated: the layer carries a downstream-failure policy chosen when
\* it is built, and both policies can be chosen: under the opaque one a
\* downstream error comes back as a response, under the transparent one as
\* the error itself.
C17_PolicySelectable ==
    \A r \in Reqs :
        (probe.applied /\ fut[r].state = "Done" /\ DownstreamFailed(r)) =>
            /\ SelectablePolicies = {"opaque", "transparent"}
            /\ out[r] = IF FailurePolicy(probe.layer) = "transparent"
                        THEN <<ReadyErr(DownstreamError(r).val)>>
                        ELSE <<ReadyOk(ResultIntoResponse(DownstreamError(r)))>>

\* C17 (amended): there is one downstream-failure policy, the opaque one,
\* whatever layer is built: the error of the downstream poll_ready or call is
\* turned into a response and the future completes with Ok(response), never
\* with the error.
C17_OpaqueOnly ==
    /\ SelectablePolicies = {"opaque"}
    /\ \A r \in Reqs :
          (probe.applied /\ fut[r].state = "Done" /\ DownstreamFailed(r)) =>
              /\ FailurePolicy(probe.layer) = "opaque"
              /\ out[r] = <<ReadyOk(ResultIntoResponse(DownstreamError(r)))>>

\* Under a layer with a filter, one request's downstream call failed and
\* another's poll_ready failed: both futures returned a 500 response.
C17_Witness ==
    /\ MaxReq >= 2
    /\ probe.applied
    /\ probe.layer.validate = "FilterResult"
    /\ resolved[1] = <<DownErr>>
    /\ out[1] = <<ReadyOk(Resp(500, "boom"))>>
    /\ Has(trace[2], "poll_ready:err")
    /\ out[2] = <<ReadyOk(Resp(500, "unavailable"))>>

\* ------------------------------------------------------------- C18
\* C18: a layer given a custom extractor by with_extract can be applied as
\* middleware (Layer::layer accepts it), and the middleware it gives carries
\* that extractor.
C18_CustomLayerApplies ==
    /\ (~probe.applied /\ probe.layer.extract = "Custom") => ENABLED Apply
    /\ probe.applied => probe.layer.extract \in Extractors

\* ------------------------------------------------------------- C19
\* How often the stored handle was replaced: every swap installs the clone
\* made for it, whose identity is the next one.
Replacements == svc - 1

\* The calls of Jwt::call made so far.
Calls == nextReq - 1

\* C19 as stated: the stored handle is replaced exactly once for every
\* invocation of Jwt::call.
C19_OncePerCall == Replacements = Calls

\* A step that is an invocation of Jwt::call.
IsCall == nextReq' = nextReq + 1

\* C19 (amended): the stored handle is replaced exactly once by every
\* invocation of Jwt::call that forwards its request, by the swap that
\* installs a fresh clone, and not at all by an invocation that rejects its
\* request; nothing else replaces it.
C19_OncePerForwardedCall ==
    /\ [](/\ Replacements = Cardinality(Swapped)
          /\ Swapped = {r \in Reqs : decided[r] # NoDecision /\ decided[r].ok}
          /\ Replacements <= Calls
          /\ handles[svc] = "idle")
    /\ [][IF IsCall
          THEN IF Has(trace'[nextReq], "swap")
               THEN svc' = svc + 1 /\ handles[svc'] = "unborn"
                    /\ fut'[nextReq].state = "NotReady" /\ fut'[nextReq].svc = svc
               ELSE svc' = svc /\ fut'[nextReq].state = "Ready"
          ELSE svc' = svc]_vars

\* Two calls were made, the first rejected for want of a token and the
\* second forwarded: the stored handle was replaced once.
C19_Witness ==
    /\ MaxReq >= 2
    /\ Calls = 2
    /\ Has(trace[1], "extract:none")
    /\ Has(trace[2], "swap")
    /\ Replacements = 1

\* ------------------------------------------------------------- C21
\* Jwt::call rejected request r: no token, a decode failure or a denial.
Rejected(r) ==
    \/ Has(trace[r], "extract:none")
    \/ Has(trace[r], "decode:err")
    \/ Has(trace[r], "validate:deny")

\* The response Jwt::call put into the future of a rejected request.
RejectionOf(r) ==
    IF decided[r] # NoDecision THEN DenialOf(decided[r]) ELSE Unauthorized

\* The executor polls the future of request r.
Polls(r) == \E first \in FirstPolls(r) : Poll(r, first)

\* What C21 says of every state: the future of a rejected request never
\* returned Pending, and once polled it has returned its rejection.
C21_State(r) ==
    /\ Rejected(r) =>
          /\ lastPoll[r] # "Pending"
          /\ fut[r].state \in {"Ready", "Done"}
          /\ lastPoll[r] = "none" <=> fut[r].state = "Ready"
          /\ lastPoll[r] # "none" => out[r] = <<ReadyOk(RejectionOf(r))>>
    /\ lastPoll[r] = "Pending" =>
          /\ fut[r].state \in {"NotReady", "Called"}
          /\ Has(trace[r], "swap")
          /\ fut[r].state = "NotReady" => handles[fut[r].svc] \in {"idle", "ready", "failed"}
          /\ fut[r].state = "Called" => delivered[r] # <<>>

\* What C21 says of a poll of request r's future.
C21_Step(r) ==
    Polls(r) =>
        /\ fut[r].state = "Ready" =>
              /\ lastPoll'[r] = "Ready"
              /\ out'[r] = <<ReadyOk(fut[r].res)>>
              /\ handles' = handles
        /\ lastPoll'[r] = "Pending" =>
              \/ fut[r].state = "NotReady" /\ handles[fut[r].svc] = "idle"
              \/ fut[r].state = "NotReady" /\ fut'[r].state = "Called"
                    /\ fut'[r].inner.st = "running"
              \/ fut[r].state = "Called" /\ fut[r].inner.st = "running"

\* C21: the future of a rejected request returns Poll::Ready with the
\* rejection response on its first poll and never Poll::Pending, whatever
\* the downstream handles and the other requests are doing; Poll::Pending
\* comes only from NotReady, when the downstream poll_ready is pending, or
\* from Called, when the downstream future is pending.
C21_OnlyForwardingSuspends ==
    /\ [](\A r \in Reqs : C21_State(r))
    /\ [][\A r \in Reqs : C21_Step(r)]_vars

\* The first request is with a downstream handler that has not answered and
\* its future returned Pending; the second was rejected and its future
\* returned 401 on its first poll.
C21_Witness ==
    /\ MaxReq >= 2
    /\ fut[1].state = "Called" /\ fut[1].inner.st = "running"
    /\ lastPoll[1] = "Pending"
    /\ Rejected(2)
    /\ lastPoll[2] = "Ready"
    /\ out[2] = <<ReadyOk(Unauthorized)>>

\* ------------------------------------------------------------- C22
\* The handle Jwt::call took out of self.svc for request r: the stored one
\* at that time, which is the clone installed by the forwarded call before.
HandleOf(r) == 1 + Cardinality({q \in Swapped : q < r})

\* The place of a stage in a trace (0: not there).
PlaceOf(tr, e) == IF Has(tr, e) THEN CHOOSE i \in DOMAIN tr : tr[i] = e ELSE 0

\* What C22 says of every state.
C22_State(r) ==
    /\ \A i \in DOMAIN delivered[r] :
          /\ delivered[r][i].hs = "ready"
          /\ delivered[r][i].svc = HandleOf(r)
          /\ delivered[r][i].req.hdr = recv[r]
    /\ fut[r].state = "NotReady" =>
          /\ fut[r].svc = HandleOf(r)
          /\ fut[r].req.hdr = recv[r]
          /\ delivered[r] = <<>>
    /\ Has(trace[r], "call") =>
          /\ Has(trace[r], "poll_ready:ok")
          /\ PlaceOf(trace[r], "poll_ready:ok") < PlaceOf(trace[r], "call")
          /\ Len(delivered[r]) = 1
    /\ Has(trace[r], "poll_ready:err") =>
          /\ ~Has(trace[r], "call")
          /\ delivered[r] = <<>>
          /\ fut[r].state = "Done"
          /\ out[r] = <<ReadyOk(ResultIntoResponse(SvcError))>>

\* What C22 says of a poll of request r's future in NotReady, by what the
\* poll_ready of its handle answers.
C22_Step(r) ==
    (Polls(r) /\ fut[r].state = "NotReady") =>
        LET hs == handles[fut[r].svc] IN
        /\ hs = "idle" =>
              /\ fut'[r] = fut[r]
              /\ lastPoll'[r] = "Pending"
              /\ delivered'[r] = <<>>
              /\ out'[r] = <<>>
        /\ hs = "failed" =>
              /\ fut'[r].state = "Done"
              /\ delivered'[r] = <<>>
              /\ out'[r] = <<ReadyOk(ResultIntoResponse(SvcError))>>
        /\ hs = "ready" =>
              /\ delivered'[r] = <<[req |-> fut[r].req, svc |-> fut[r].svc, hs |-> "ready"]>>
              /\ fut'[r].state \in {"Called", "Done"}
        /\ hs \in {"idle", "failed", "ready"}

\* C22: the downstream call of a forwarded request is made only after
\* poll_ready of the very handle taken for it returned Ready(Ok(())), and
\* with its own request; while poll_ready is pending the future stays in
\* NotReady with its request; if poll_ready returns Ready(Err(e)) the call
\* is never made and the future goes to Done with e as a response.
C22_CallAfterReady ==
    /\ [](\A r \in Reqs : C22_State(r))
    /\ [][\A r \in Reqs : C22_Step(r)]_vars

\* The second request's handle became ready and its call was made on it,
\* while the first, forwarded before it, saw its own handle fail and
\* completed without a call.
C22_Witness ==
    /\ MaxReq >= 2
    /\ Has(trace[1], "poll_ready:err")
    /\ delivered[1] = <<>>
    /\ fut[1].state = "Done"
    /\ Len(delivered[2]) = 1
    /\ delivered[2][1].svc = 2
    /\ delivered[2][1].hs = "ready"
    /\ fut[2].state = "Called"

\* ------------------------------------------------------------- C23
\* What the decoder makes of the token request r arrived with.
DecodedOf(r) == DecoderDecode(decoder, recv[r].token, Typed(validate))

\* C23: with store_to_extension, a request handed to the downstream handler
\* carries in its extensions the claims decoded from its own token, those
\* the decision was asked about; for a request that is rejected (no token, a
\* decode failure, a denial) the store function is not run.
C23_StoresOwnClaims ==
    store = "extension" =>
        \A r \in Reqs :
            /\ Has(trace[r], "swap") =>
                  /\ recv[r].kind = "bearer"
                  /\ DecodedOf(r).ok
                  /\ decided[r] \in Validate(validate, DecodedOf(r).val)
                  /\ Has(trace[r], "store")
                  /\ fut[r].state = "NotReady" =>
                        fut[r].req = [hdr |-> recv[r], ext |-> DecodedOf(r).val,
                                      body |-> "body"]
            /\ \A i \in DOMAIN delivered[r] :
                  /\ delivered[r][i].req.hdr = recv[r]
                  /\ delivered[r][i].req.ext = DecodedOf(r).val
                  /\ delivered[r][i].req.ext = recv[r].token.claims
            /\ Rejected(r) =>
                  /\ ~Has(trace[r], "store")
                  /\ delivered[r] = <<>>
                  /\ fut[r].state \in {"Ready", "Done"}
            /\ Has(trace[r], "store") => Has(trace[r], "validate:allow")

\* Two callers with different claims were forwarded at the same time: each
\* request reached the handler with its own claims in its extensions.
C23_Witness ==
    /\ MaxReq >= 2
    /\ store = "extension"
    /\ Len(delivered[1]) = 1 /\ Len(delivered[2]) = 1
    /\ delivered[1][1].req.ext = "admin"
    /\ delivered[2][1].req.ext = "user"
    /\ recv[1].token.signer = "k1" /\ recv[2].token.signer = "k2"

\* With store_to_extension the decision denied a request and nothing was
\* stored for it.
C23_WitnessDenied ==
    /\ store = "extension"
    /\ decided[1] = BoolOut(FALSE)
    /\ ~Has(trace[1], "store")
    /\ fut[1].state = "Done"

\* ------------------------------------------------------------- C24
\* The middleware forwarded the request: the future it returned holds the
\* request for the downstream handler.
Forwarded(f) == f.state \in {"NotReady", "Called"}

\* C24: with the same decoder, the Bearer extractor and the same claims
\* type, Token<T>::from_request_parts (and Claims<T>) succeeds on a request
\* exactly when the middleware with an always-allowing filter over T
\* forwards it; when it fails, the rejection is Error::Extract if the token
\* is absent and Error::Jwt if the decode fails, and its response is the
\* 401 the middleware's future returns.
C24_ExtractorMatchesMiddleware ==
    /\ probe.token # NotRun =>
          /\ probe.claims.ok = probe.token.ok
          /\ probe.claims.ok => probe.claims.claims = probe.token.claims
          /\ ~probe.claims.ok => probe.claims.err = probe.token.err
          /\ ~probe.token.ok =>
                /\ probe.token.err.kind =
                      (IF probe.hdr.kind = "bearer" THEN "Jwt" ELSE "Extract")
                /\ ErrorIntoResponse(probe.token.err) = Unauthorized
          /\ probe.token.ok =>
                /\ probe.hdr.kind = "bearer"
                /\ probe.token.claims = probe.hdr.token.claims
    /\ (probe.token # NotRun /\ probe.called /\ ~probe.polled) =>
          /\ probe.token.ok <=> Forwarded(probe.fut)
          /\ probe.token.ok => probe.fut.req.hdr = probe.hdr
          /\ ~probe.token.ok =>
                /\ probe.fut.state = "Ready"
                /\ probe.fut.res = ErrorIntoResponse(probe.token.err)
    /\ (probe.token # NotRun /\ probe.polled) =>
          IF probe.token.ok
          THEN probe.poll = Pending /\ Forwarded(probe.fut)
          ELSE probe.poll = ReadyOk(ErrorIntoResponse(probe.token.err))

\* A token signed by the decoder's second key whose payload is not a T: the
\* extractor failed with Error::Jwt and the middleware's future returned 401.
C24_Witness ==
    /\ probe.token # NotRun /\ probe.polled
    /\ Len(probe.keys) = 2
    /\ probe.hdr.kind = "bearer"
    /\ probe.hdr.token.kind = "schema"
    /\ probe.hdr.token.signer = probe.keys[2]
    /\ probe.token.err = [kind |-> "Jwt", val |-> "Json"]
    /\ probe.poll = ReadyOk(Unauthorized)

\* A good token: the extractor gave its claims and the middleware forwarded
\* the request.
C24_WitnessOk ==
    /\ probe.token # NotRun /\ probe.called
    /\ probe.token.ok
    /\ probe.token.claims = "admin"
    /\ Forwarded(probe.fut)

====
